---- MODULE Spec2Model ----
(***************************************************************************)
(* A model of src/nn/wavenet.py: the causal convolution with its streaming *)
(* input memory (Conv), the residual block stack in batch and streaming    *)
(* mode (Wavenet.forward, Wavenet.infer_step) and the autoregressive       *)
(* generation loop (Wavenet.inference).                                    *)
(*                                                                         *)
(* Tensors are modelled for one batch element: a frame is a sequence of    *)
(* channel values, a signal a sequence of frames (index 1 is time 0).      *)
(* Activations are fixed-point integers: the integer v stands for v/Scale. *)
(* Weights are small integers, so a convolution of fixed-point frames is   *)
(* again fixed-point.  The batch dimension appears only where the code's   *)
(* control flow reads it (the shape arguments and buffers of inference).   *)
(***************************************************************************)
EXTENDS Integers, Sequences, FiniteSets, TLC

VARIABLES
  layer,          \* SpecConv: the Conv object under test (its constructor arguments)
  input_memory,   \* SpecConv: Conv.input_memory of that object
  signal,         \* SpecConv: the input sequence fed frame by frame
  outs,           \* SpecConv: what each completed Conv.infer_step call returned
  wn,             \* the Wavenet object (its constructor arguments)
  dilate_memory,  \* dilate_memory[i+1]: input_memory of wn's dilate_layers[i]
  audio,          \* SpecStack, SpecBatch: the quantized input sequence
  cond_seq,       \* SpecStack, SpecBatch: the conditioning features
  step_outs,      \* SpecStack: what each completed Wavenet.infer_step call returned
  fwd,            \* SpecBatch: the Wavenet.forward call made and its result
  args,           \* Spec: the arguments the caller passes to Wavenet.inference
  inference,      \* Spec: the frame of the Wavenet.inference call (its locals)
  sessions        \* Spec: the frames of the earlier calls, as they ended

convVars == <<layer, input_memory, signal, outs>>
stackVars == <<wn, dilate_memory, audio, cond_seq, step_outs, fwd>>
inferenceVars == <<args, inference, sessions>>
vars == <<layer, input_memory, signal, outs, wn, dilate_memory, audio, cond_seq, step_outs, fwd,
          args, inference, sessions>>

(***************************************************************************)
(* Bounds of the model.                                                    *)
(***************************************************************************)
Scale == 4              \* fixed-point unit: the integer Scale stands for 1.0
MaxLen == 4             \* longest input sequence of a single layer
MaxConvDilation == 3    \* largest dilation of a single layer
NumWeightSets == 2      \* how many weight sets a layer is drawn from
MaxLayers == 3          \* most residual blocks of a stack
MaxBatchLayers == 2     \* most residual blocks of a stack run in batch mode
MaxMaxDilation == 2     \* largest max_dilation of a stack
MaxSeq == 3             \* longest input sequence of a stack
MuQuantization == 2     \* number of quantized sample values
MaxDropPattern == 1     \* dropout masks 0..MaxDropPattern
MaxLength == 3          \* longest conditioning / largest length argument of inference
MaxTeacher == 2         \* longest teacher buffer
MaxSessions == 2        \* inference calls made on one model object

(***************************************************************************)
(* Arithmetic helpers.                                                     *)
(***************************************************************************)
Abs(v) == IF v < 0 THEN -v ELSE v

RECURSIVE Sum(_, _)
\* f[1] + ... + f[n]
Sum(f, n) == IF n = 0 THEN 0 ELSE f[n] + Sum(f, n - 1)

\* The function f on 1..n as the tuple of its values.
Tuple(f) == f \o <<>>

Zeros(n, channels) == Tuple([t \in 1..n |-> Tuple([c \in 1..channels |-> 0])])

\* torch.nn.Softsign: x / (1 + |x|), in fixed point, rounded towards zero.
Softsign(v) ==
  LET q == (Scale * Abs(v)) \div (Scale + Abs(v))
  IN IF v < 0 THEN -q ELSE q

(***************************************************************************)
(* Conv: the weights of torch.nn.Conv1d.  A layer's weights are a function *)
(* of its weight set (tag): nonzero integers in -2..2; its bias, when it   *)
(* has one, a positive fixed-point value.                                  *)
(***************************************************************************)
Weight(l, o, i, k) ==
  LET r == (l.tag * 7 + o * 3 + i * 5 + k * 2) % 4
  IN IF r < 2 THEN r - 2 ELSE r - 1

Bias(l, o) == IF l.use_bias THEN ((l.tag + o) % 3) + 1 ELSE 0

\* One output frame of the convolution: taps is the sequence of kernel_size
\* input frames under the kernel (F.conv1d of a signal of length kernel_size).
ConvTaps(l, taps) ==
  Tuple([o \in 1..l.out_channels |->
     Bias(l, o)
     + Sum([k \in 1..Len(taps) |->
              Sum([i \in 1..l.in_channels |-> Weight(l, o, i, k) * taps[k][i]],
                  l.in_channels)],
           Len(taps))])

\* self.conv(signal): the dilated convolution over a whole signal, without
\* padding; the output is shorter than the input by (kernel_size-1)*dilation.
Conv1d(l, sig) ==
  LET span == (l.kernel_size - 1) * l.dilation
      n == IF Len(sig) > span THEN Len(sig) - span ELSE 0
  IN Tuple([t \in 1..n |->
        ConvTaps(l, [k \in 1..l.kernel_size |-> sig[t + (k - 1) * l.dilation]])])

\* Conv.forward
ConvForward(l, sig) ==
  LET padded == IF l.is_causal
                THEN Zeros((l.kernel_size - 1) * l.dilation, l.in_channels) \o sig
                ELSE sig
      conv == Conv1d(l, padded)
  IN IF l.use_act
     THEN Tuple([t \in 1..Len(conv) |->
                   Tuple([o \in 1..l.out_channels |-> Softsign(conv[t][o])])])
     ELSE conv

(***************************************************************************)
(* Conv.input_memory: None, or a deque of frames (index 1 is the left end).*)
(***************************************************************************)
NoMemory == [init |-> FALSE, q |-> <<>>]

\* Conv.init_input_memory: dilation zero frames
InitInputMemory(l) == [init |-> TRUE, q |-> Zeros(l.dilation, l.in_channels)]

\* deque.appendleft
AppendLeft(q, x) == <<x>> \o q

\* A pop that reads the right end and leaves it in the deque (input_memory[-1]).
PopRightKeeps(q) == [item |-> q[Len(q)], rest |-> q]

\* deque.pop: the right end leaves
PopRight(q) == [item |-> q[Len(q)], rest |-> SubSeq(q, 1, Len(q) - 1)]

\* What a call returns: a frame, or None (is_none); raised says whether the
\* call ended in an exception instead, and error which one.
Returned(frame) == [raised |-> FALSE, error |-> "", is_none |-> FALSE, frame |-> frame]
ReturnedNone == [raised |-> FALSE, error |-> "", is_none |-> TRUE, frame |-> <<>>]
Raised(error) == [raised |-> TRUE, error |-> error, is_none |-> FALSE, frame |-> <<>>]

\* Conv.infer_step on the window xw of frames (the last one is used).  The
\* result is what the call returns and the input memory it leaves.
ConvInferStep(l, mem, xw) ==
  LET x == xw[Len(xw)]
  IN IF l.kernel_size = 1
     THEN [ret |-> Returned(ConvTaps(l, <<x>>)), mem |-> mem]
     ELSE IF l.is_causal
     THEN LET m0 == IF mem.init THEN mem ELSE InitInputMemory(l)
              popped == PopRight(AppendLeft(m0.q, x))
          IN [ret |-> Returned(ConvTaps(l, <<popped.item, x>>)),
              mem |-> [init |-> TRUE, q |-> popped.rest]]
     ELSE [ret |-> ReturnedNone, mem |-> mem]

(***************************************************************************)
(* Elementwise functions of torch used by the stack, in fixed point.  tanh *)
(* and sigmoid are modelled by their piecewise-linear forms (hardtanh,     *)
(* hardsigmoid): odd and saturating at +-1, increasing from 0 to 1.        *)
(***************************************************************************)
Clamp(v, lo, hi) == IF v < lo THEN lo ELSE IF v > hi THEN hi ELSE v

\* a * b of two fixed-point values, rounded towards zero
MulFix(a, b) ==
  LET q == (Abs(a) * Abs(b)) \div Scale
  IN IF (a < 0) = (b < 0) THEN q ELSE -q

Tanh(v) == Clamp(v, -Scale, Scale)

Sigmoid(v) == Clamp((v + 2 * Scale) \div 4, 0, Scale)

Relu(v) == IF v < 0 THEN 0 ELSE v

\* Elementwise sum of two frames, and of two signals of equal length.
AddFrames(a, b) == Tuple([c \in 1..Len(a) |-> a[c] + b[c]])
AddSignals(a, b) == Tuple([t \in 1..Len(a) |-> AddFrames(a[t], b[t])])

\* Elementwise relu and softsign of a frame and of a signal.
ReluFrame(a) == Tuple([c \in 1..Len(a) |-> Relu(a[c])])
ReluSignal(sig) == Tuple([t \in 1..Len(sig) |-> ReluFrame(sig[t])])
SoftsignSignal(sig) ==
  Tuple([t \in 1..Len(sig) |-> Tuple([c \in 1..Len(sig[t]) |-> Softsign(sig[t][c])])])

(***************************************************************************)
(* Wavenet.__init__: the layers of a model w (its constructor arguments).  *)
(***************************************************************************)
RECURSIVE FloorLog2(_)
\* math.floor(math.log2(m)) for an integer m >= 1
FloorLog2(m) == IF m <= 1 THEN 0 ELSE 1 + FloorLog2(m \div 2)

RECURSIVE Pow2(_)
Pow2(n) == IF n = 0 THEN 1 ELSE 2 * Pow2(n - 1)

\* A loop factor without the + 1.
LoopFactorShort(max_dilation) == IF max_dilation <= 1 THEN 1 ELSE FloorLog2(max_dilation)

\* loop_factor = math.floor(math.log2(max_dilation)) + 1
LoopFactor(max_dilation) == FloorLog2(max_dilation) + 1

\* dilation = 2 ** (i % loop_factor), for block i = 0 .. n_layers-1
BlockDilation(i, max_dilation) == Pow2(i % LoopFactor(max_dilation))

\* self.dilate_layers[i]
DilateLayer(w, i) ==
  [kernel_size |-> 2, dilation |-> BlockDilation(i, w.max_dilation), is_causal |-> TRUE,
   in_channels |-> w.n_residual_channels, out_channels |-> 2 * w.n_residual_channels,
   tag |-> 10 + i, use_bias |-> w.use_dilate_bias, use_act |-> FALSE]

\* self.res_layers: one per block but the last, when use_res_out_conv
NumResLayers(w) == IF w.use_res_out_conv THEN w.n_layers - 1 ELSE 0

\* self.res_layers[i]
ResLayer(w, i) ==
  [kernel_size |-> 1, dilation |-> 1, is_causal |-> FALSE,
   in_channels |-> w.n_residual_channels, out_channels |-> w.n_residual_channels,
   tag |-> 20 + i, use_bias |-> w.use_res_out_bias, use_act |-> FALSE]

\* self.skip_layers[i]
SkipLayer(w, i) ==
  [kernel_size |-> 1, dilation |-> 1, is_causal |-> FALSE,
   in_channels |-> w.n_residual_channels, out_channels |-> w.n_skip_channels,
   tag |-> 30 + i, use_bias |-> w.use_skip_bias, use_act |-> FALSE]

\* self.cond_layers
CondLayers(w) ==
  [kernel_size |-> 1, dilation |-> 1, is_causal |-> FALSE,
   in_channels |-> w.n_cond_channels,
   out_channels |-> IF w.same_cond_each_resblock
                    THEN 2 * w.n_residual_channels
                    ELSE 2 * w.n_residual_channels * w.n_layers,
   tag |-> 40, use_bias |-> w.use_cond_bias, use_act |-> w.use_cond_act]

\* self.conv_out, self.conv_end
ConvOut(w) ==
  [kernel_size |-> 1, dilation |-> 1, is_causal |-> FALSE,
   in_channels |-> w.n_skip_channels, out_channels |-> w.n_skip_to_out_channels,
   tag |-> 50, use_bias |-> FALSE, use_act |-> FALSE]
ConvEnd(w) ==
  [kernel_size |-> 1, dilation |-> 1, is_causal |-> FALSE,
   in_channels |-> w.n_skip_to_out_channels, out_channels |-> w.n_out_channels,
   tag |-> 60, use_bias |-> FALSE, use_act |-> FALSE]

\* QuantizedInputLayer.embed: the embedding row of a quantized sample
Embedding(w, x) == Tuple([c \in 1..w.n_residual_channels |-> (2 * x + c - 2) * Scale])

\* QuantizedInputLayer.forward on a sequence xs of quantized samples
InLayer(w, xs) ==
  LET e == Tuple([t \in 1..Len(xs) |-> Embedding(w, xs[t])])
  IN IF w.use_in_act THEN SoftsignSignal(e) ELSE e

\* forward_input * self.res_block_gain, the gain being gain_num / gain_den
Gain(w, v) ==
  LET q == (Abs(v) * w.gain_num) \div w.gain_den
  IN IF v < 0 THEN -q ELSE q

\* UpsampleByRepetition.forward: every frame upscale times
Upsample(w, X) ==
  Tuple([t \in 1..(Len(X) * w.upscale) |-> X[((t - 1) \div w.upscale) + 1]])

(***************************************************************************)
(* Conditioning tensors.  rank 3 (B x C x T): data is a signal.  rank 4    *)
(* (B x n_layers x C x T): data[i+1] is the signal of block i.  A time     *)
(* slice has one rank less: a frame, or one frame per block.               *)
(***************************************************************************)
NoCond == [rank |-> 0, data |-> <<>>]

\* tensor.view(B, n_layers, -1, T) of a rank-3 tensor
ViewPerBlock(w, sig) ==
  LET g == Len(sig[1]) \div w.n_layers
  IN [rank |-> 4,
      data |-> Tuple([i \in 1..w.n_layers |->
                  Tuple([t \in 1..Len(sig) |->
                     Tuple([c \in 1..g |-> sig[t][(i - 1) * g + c]])])])]

\* tensor[..., s]: the slice at time index s (0-based)
TimeSlice(cond, s) ==
  IF cond.rank = 3 THEN [rank |-> 2, data |-> cond.data[s + 1]]
  ELSE IF cond.rank = 4
  THEN [rank |-> 3, data |-> Tuple([i \in 1..Len(cond.data) |-> cond.data[i][s + 1]])]
  ELSE NoCond

(***************************************************************************)
(* Wavenet.forward: the stack over a whole sequence.                       *)
(***************************************************************************)
\* torch.nn.Dropout in training mode: an element is zeroed or scaled by
\* 1/(1-p) = drop_scale.  The random mask is one of a small family: pattern 0
\* zeroes nothing, pattern k > 0 zeroes the elements of the call at site whose
\* position (t, c) has (site + t + c) divisible by k + 1.
Dropped(drop, site, t, c) == drop > 0 /\ (site + t + c) % (drop + 1) = 0

Dropout(w, sig, site, drop) ==
  Tuple([t \in 1..Len(sig) |->
     Tuple([c \in 1..Len(sig[t]) |->
        IF Dropped(drop, site, t, c) THEN 0 ELSE sig[t][c] * w.drop_scale])])

\* lines 276-288: the conditioning input of forward for an input of T samples
ForwardCond(w, features, T) ==
  IF ~w.use_conditioning THEN [raised |-> FALSE, cond |-> NoCond]
  ELSE
    LET up == IF w.upscale # 1 THEN Upsample(w, features) ELSE features
        cut == IF Len(up) > T THEN SubSeq(up, 1, T) ELSE up
        conv == IF w.use_cond_conv THEN ConvForward(CondLayers(w), cut) ELSE cut
    IN IF Len(up) < T
       THEN [raised |-> TRUE, cond |-> NoCond]
       ELSE [raised |-> FALSE,
             cond |-> IF ~w.same_cond_each_resblock
                      THEN ViewPerBlock(w, conv)
                      ELSE [rank |-> 3, data |-> conv]]

\* t_act * s_act of a whole signal: tanh of the first n_residual_channels
\* channels times sigmoid of the others
GateSignal(w, in_act) ==
  Tuple([t \in 1..Len(in_act) |->
     Tuple([c \in 1..w.n_residual_channels |->
        MulFix(Tanh(in_act[t][c]), Sigmoid(in_act[t][w.n_residual_channels + c]))])])

RECURSIVE ForwardBlocks(_, _, _, _, _, _, _)
\* lines 297-326: the residual block loop from block i on
ForwardBlocks(w, i, forward_input, output, cond_input, training, drop) ==
  IF i >= w.n_layers
  THEN [forward_input |-> forward_input, output |-> output]
  ELSE
    LET fi == IF training THEN Dropout(w, forward_input, i, drop) ELSE forward_input
        conv == ConvForward(DilateLayer(w, i), fi)
        cond_act == IF w.same_cond_each_resblock
                    THEN cond_input.data
                    ELSE cond_input.data[i + 1]
        in_act == IF w.use_conditioning THEN AddSignals(conv, cond_act) ELSE conv
        acts == GateSignal(w, in_act)
        skip == ConvForward(SkipLayer(w, i), acts)
        out == IF w.use_skip_out
               THEN (IF i = 0 THEN skip ELSE AddSignals(skip, output))
               ELSE output
        res == IF w.use_res_out_conv /\ i < NumResLayers(w)
               THEN ConvForward(ResLayer(w, i), acts)
               ELSE acts
        sum == AddSignals(res, fi)
        next == Tuple([t \in 1..Len(sum) |->
                         Tuple([c \in 1..Len(sum[t]) |-> Gain(w, sum[t][c])])])
    IN ForwardBlocks(w, i + 1, next, out, cond_input, training, drop)

\* lines 330-345: the output head over the skip sum, or the residual stream
ForwardHead(w, blocks, training, drop) ==
  IF w.use_skip_out
  THEN LET o1 == IF training THEN Dropout(w, blocks.output, w.n_layers, drop)
                 ELSE blocks.output
           o2 == ConvForward(ConvOut(w), ReluSignal(o1))
           o3 == IF training THEN Dropout(w, o2, w.n_layers + 1, drop) ELSE o2
       IN ConvForward(ConvEnd(w), ReluSignal(o3))
  ELSE blocks.forward_input


\* An output that is returned as computed, neither shifted nor zeroed.
ShiftOutputSkipped(output) == output

\* lines 347-354: the last frame leaves, a zero frame enters at the front
ShiftOutput(output) ==
  LET last == output[Len(output)]
      first == Tuple([c \in 1..Len(last) |-> last[c] * 0])
  IN <<first>> \o SubSeq(output, 1, Len(output) - 1)

\* Wavenet.forward((features, forward_input), training); drop is the dropout
\* mask drawn in training mode.
Forward(w, features, xs, training, drop) ==
  LET c == ForwardCond(w, features, Len(xs))
      blocks == ForwardBlocks(w, 0, InLayer(w, xs), <<>>, c.cond, training, drop)
  IN IF c.raised
     THEN [raised |-> TRUE, error |-> "AssertionError", output |-> <<>>]
     ELSE [raised |-> FALSE, error |-> "",
           output |-> ShiftOutput(ForwardHead(w, blocks, training, drop))]

(***************************************************************************)
(* Wavenet.infer_step: the stack on one sample, with the blocks' memories. *)
(***************************************************************************)
RECURSIVE InferBlocks(_, _, _, _, _, _)
\* lines 376-401: the residual block loop from block i on; mems[i+1] is the
\* input memory of dilate_layers[i], cond_input the slice after unsqueeze(-1).
InferBlocks(w, i, forward_input, output, cond_input, mems) ==
  IF i >= w.n_layers
  THEN [raised |-> FALSE, error |-> "", forward_input |-> forward_input,
        output |-> output, mems |-> mems]
  ELSE
    LET step == ConvInferStep(DilateLayer(w, i), mems[i + 1], <<forward_input>>)
        mems1 == [mems EXCEPT ![i + 1] = step.mem]
        indexed == w.use_conditioning /\ w.use_cond_conv
        cond_act == IF indexed THEN cond_input.data[i + 1] ELSE cond_input.data
        in_act == IF w.use_conditioning
                  THEN AddFrames(step.ret.frame, cond_act)
                  ELSE step.ret.frame
        R == w.n_residual_channels
        acts == Tuple([c \in 1..R |-> MulFix(Tanh(in_act[c]), Sigmoid(in_act[R + c]))])
        skip == ConvForward(SkipLayer(w, i), <<acts>>)[1]
        out == IF w.use_skip_out
               THEN (IF i = 0 THEN skip ELSE AddFrames(skip, output))
               ELSE output
        res == IF w.use_res_out_conv /\ i < NumResLayers(w)
               THEN ConvForward(ResLayer(w, i), <<acts>>)[1]
               ELSE acts
        sum == AddFrames(res, forward_input)
        next == Tuple([c \in 1..Len(sum) |-> Gain(w, sum[c])])
    IN IF indexed /\ cond_input.rank # 4
       THEN \* cond_input[:, i, :, :] on a tensor of fewer than 4 dimensions
            [raised |-> TRUE, error |-> "IndexError", forward_input |-> forward_input,
             output |-> output, mems |-> mems1]
       ELSE IF w.use_conditioning /\ ~indexed /\ cond_input.rank # 3
       THEN \* in_act + cond_act with the whole per-block tensor: the sum has
            \* rank 4, which the layers that follow reject
            [raised |-> TRUE, error |-> "RuntimeError", forward_input |-> forward_input,
             output |-> output, mems |-> mems1]
       ELSE InferBlocks(w, i + 1, next, out, cond_input, mems1)

\* Wavenet.infer_step(cond_input, forward_input) on the quantized sample x:
\* what the call returns and the memories it leaves.
InferStep(w, mems, cond_slice, x) ==
  LET forward_input == InLayer(w, <<x>>)[1]
      cond_input == [rank |-> cond_slice.rank + 1, data |-> cond_slice.data]
      blocks == InferBlocks(w, 0, forward_input, <<>>, cond_input, mems)
      head == ConvForward(ConvEnd(w),
                <<ReluFrame(
                    ConvForward(ConvOut(w), <<ReluFrame(blocks.output)>>)[1])>>)[1]
  IN IF blocks.raised
     THEN [ret |-> Raised(blocks.error), mems |-> blocks.mems]
     ELSE [ret |-> Returned(IF w.use_skip_out THEN head ELSE blocks.forward_input),
           mems |-> blocks.mems]

(***************************************************************************)
(* SpecConv: one Conv object, driven one frame at a time.                  *)
(***************************************************************************)
ConvLayers ==
  [kernel_size : {1, 2}, dilation : 1..MaxConvDilation, is_causal : BOOLEAN,
   in_channels : {1}, out_channels : {1}, tag : 1..NumWeightSets,
   use_bias : BOOLEAN, use_act : BOOLEAN]

SampleFrames == {<<Scale>>, <<-2 * Scale>>}

Signals == UNION {[1..n -> SampleFrames] : n \in 1..MaxLen}

\* The variables of the other specifications, which this one leaves alone.
StackIdle ==
  /\ wn = <<>> /\ dilate_memory = <<>> /\ audio = <<>> /\ cond_seq = <<>>
  /\ step_outs = <<>> /\ fwd = <<>>

InferenceIdle ==
  /\ args = <<>> /\ inference = <<>> /\ sessions = <<>>

InitConv ==
  /\ layer \in ConvLayers
  /\ signal \in Signals
  /\ input_memory = NoMemory
  /\ outs = <<>>
  /\ StackIdle
  /\ InferenceIdle

\* The next frame of the signal is handed to Conv.infer_step.
ConvInferStepCall ==
  /\ Len(outs) < Len(signal)
  /\ LET r == ConvInferStep(layer, input_memory, <<signal[Len(outs) + 1]>>)
     IN /\ outs' = Append(outs, r.ret)
        /\ input_memory' = r.mem
  /\ UNCHANGED <<layer, signal>>
  /\ UNCHANGED stackVars
  /\ UNCHANGED inferenceVars

NextConv == ConvInferStepCall

SpecConv == InitConv /\ [][NextConv]_vars

(***************************************************************************)
(* The models and inputs of the stack specifications.                      *)
(***************************************************************************)
\* Wavenet(...): the constructor arguments.  The flags the stack branches on
\* take every value; the channel counts are the smallest ones, the
\* conditioning has as many channels as the stack configuration needs, and
\* every optional bias and activation is present.
Model(nl, md, uc, ucc, same, skip, res, up) ==
  [n_layers |-> nl, max_dilation |-> md,
   use_conditioning |-> uc, use_cond_conv |-> ucc, same_cond_each_resblock |-> same,
   use_skip_out |-> skip, use_res_out_conv |-> res,
   n_residual_channels |-> 1, n_skip_channels |-> 2, n_skip_to_out_channels |-> 2,
   n_out_channels |-> MuQuantization,
   n_cond_channels |-> IF ucc THEN 1 ELSE IF same THEN 2 ELSE 2 * nl,
   upscale |-> up,
   use_dilate_bias |-> TRUE, use_res_out_bias |-> TRUE, use_skip_bias |-> TRUE,
   use_cond_bias |-> TRUE, use_cond_act |-> TRUE, use_in_act |-> TRUE,
   gain_num |-> 1, gain_den |-> 2, drop_scale |-> 2]

WavenetModels ==
  {Model(nl, md, uc, ucc, same, skip, res, 1) :
     nl \in 1..MaxLayers, md \in 1..MaxMaxDilation, uc \in BOOLEAN, ucc \in BOOLEAN,
     same \in BOOLEAN, skip \in BOOLEAN, res \in BOOLEAN}

\* The input sequences of n samples: over the two lowest quantized values.
Samples == {0, 1}
SampleSeqs(n) == [1..n -> Samples]

\* Conditioning features of n frames for model w: each frame is silent (zero)
\* or loud.
CondFrames(w) ==
  {[c \in 1..w.n_cond_channels |-> 0], [c \in 1..w.n_cond_channels |-> c * Scale]}
CondSeqs(w, n) == IF w.use_conditioning THEN [1..n -> CondFrames(w)] ELSE {<<>>}

\* The same with at most one loud frame.
SparseCondSeqs(w, n) ==
  {c \in CondSeqs(w, n) :
     \A i \in 1..Len(c), j \in 1..Len(c) : i < j => (c[i][1] = 0 \/ c[j][1] = 0)}

FreshMemories(w) == Tuple([i \in 1..w.n_layers |-> NoMemory])

\* lines 448-452 of Wavenet.inference: the conditioning tensor the streaming
\* steps are sliced from, for a target of length samples.
InferenceCond(w, cond_features, length) ==
  LET conv == IF w.use_cond_conv
              THEN ConvForward(CondLayers(w), cond_features)
              ELSE cond_features
      channels == IF conv = <<>> THEN 0 ELSE Len(conv[1])
  IN IF w.same_cond_each_resblock
     THEN [raised |-> FALSE, error |-> "", cond |-> [rank |-> 3, data |-> conv]]
     ELSE IF channels * Len(conv) # w.n_layers * 2 * w.n_residual_channels * length
     THEN \* view() of a tensor of another size
          [raised |-> TRUE, error |-> "RuntimeError", cond |-> NoCond]
     ELSE [raised |-> FALSE, error |-> "", cond |-> ViewPerBlock(w, conv)]

(***************************************************************************)
(* SpecStack: one Wavenet object driven one sample at a time, each step    *)
(* with the time slice of the conditioning tensor for that sample.         *)
(***************************************************************************)
ConvIdle ==
  /\ layer = <<>> /\ input_memory = <<>> /\ signal = <<>> /\ outs = <<>>

InitStack ==
  /\ wn \in WavenetModels
  /\ dilate_memory = FreshMemories(wn)
  /\ \E n \in 1..MaxSeq : audio \in SampleSeqs(n) /\ cond_seq \in SparseCondSeqs(wn, n)
  /\ step_outs = <<>>
  /\ fwd = <<>>
  /\ ConvIdle
  /\ InferenceIdle

\* The conditioning slice of time index t handed to Wavenet.infer_step.
StepCond(t) ==
  IF wn.use_conditioning
  THEN TimeSlice(InferenceCond(wn, cond_seq, Len(audio)).cond, t)
  ELSE NoCond

\* The next sample is handed to Wavenet.infer_step; a raised exception ends
\* the run.
WavenetInferStep ==
  /\ Len(step_outs) < Len(audio)
  /\ \A n \in 1..Len(step_outs) : ~step_outs[n].raised
  /\ LET t == Len(step_outs)
         r == InferStep(wn, dilate_memory, StepCond(t), audio[t + 1])
     IN /\ step_outs' = Append(step_outs, r.ret)
        /\ dilate_memory' = r.mems
  /\ UNCHANGED <<wn, audio, cond_seq, fwd>>
  /\ UNCHANGED convVars
  /\ UNCHANGED inferenceVars

NextStack == WavenetInferStep

SpecStack == InitStack /\ [][NextStack]_vars

\* C2: in every configuration of the stack flags, step t of Wavenet.infer_step
\* (fresh memories, conditioning slice of t) returns the frame that
\* Wavenet.forward with training=False has at output index t+1.
C2_StepEqualsShiftedBatch ==
  \A n \in 1..Len(step_outs) :
    n < Len(audio) =>
      /\ ~step_outs[n].raised
      /\ step_outs[n].frame = Forward(wn, cond_seq, audio, FALSE, 0).output[n + 1]

\* C8: block i of a stack built with max_dilation M has dilation
\* 2^(i mod (floor(log2(M))+1)), floor(log2(M)) being the k with
\* 2^k <= M < 2^(k+1); so the dilations start at 1, double from block to block,
\* restart after floor(log2(M))+1 blocks (10 for M = 512) and never exceed M.
\* An initialised input memory of block i holds that many frames.
C8_DilationCycle ==
  LET M == wn.max_dilation
      k == CHOOSE e \in 0..M : 2 ^ e <= M /\ M < 2 ^ (e + 1)
      d(i) == DilateLayer(wn, i).dilation
  IN /\ \A i \in 0..(wn.n_layers - 1) :
          /\ d(i) = 2 ^ (i % (k + 1))
          /\ d(i) <= M
          /\ (i % (k + 1) = 0) => d(i) = 1
          /\ (i % (k + 1) # 0) => d(i) = 2 * d(i - 1)
          /\ (i + k + 1 < wn.n_layers) => d(i + k + 1) = d(i)
          /\ dilate_memory[i + 1].init => Len(dilate_memory[i + 1].q) = 2 ^ (i % (k + 1))
     /\ LoopFactor(512) = 10
     /\ \A i \in 0..9 : BlockDilation(i, 512) = 2 ^ i /\ BlockDilation(i + 10, 512) = 2 ^ i

\* C8 witness: a stack with more blocks than one cycle of max_dilation 2, so
\* that the dilations restart, every block's input memory initialised.
C8_Witness ==
  /\ wn.max_dilation = 2 /\ wn.n_layers = 3
  /\ \A i \in 1..3 : dilate_memory[i].init
  /\ Len(dilate_memory[2].q) = 2 /\ Len(dilate_memory[3].q) = 1

(***************************************************************************)
(* SpecBatch: one Wavenet.forward call, in evaluation or training mode.    *)
(***************************************************************************)
NotCalled == [called |-> FALSE, training |-> FALSE, drop |-> 0,
              result |-> [raised |-> FALSE, error |-> "", output |-> <<>>]]

BatchModels ==
  {w \in WavenetModels : w.max_dilation = MaxMaxDilation /\ w.n_layers <= MaxBatchLayers}

\* The conditioning is as long as the input or one frame longer.
InitBatch ==
  /\ wn \in BatchModels
  /\ dilate_memory = FreshMemories(wn)
  /\ \E n \in 1..MaxSeq :
       /\ audio \in SampleSeqs(n)
       /\ \E m \in {n, n + 1} : cond_seq \in SparseCondSeqs(wn, m)
  /\ step_outs = <<>>
  /\ fwd = NotCalled
  /\ ConvIdle
  /\ InferenceIdle

\* model.forward((cond_seq, audio), training=False)
ForwardEval ==
  /\ ~fwd.called
  /\ fwd' = [called |-> TRUE, training |-> FALSE, drop |-> 0,
             result |-> Forward(wn, cond_seq, audio, FALSE, 0)]
  /\ UNCHANGED <<wn, dilate_memory, audio, cond_seq, step_outs>>
  /\ UNCHANGED convVars
  /\ UNCHANGED inferenceVars

\* model.forward((cond_seq, audio)), the dropout layers drawing mask drop
ForwardTrain ==
  /\ ~fwd.called
  /\ \E drop \in 0..MaxDropPattern :
       fwd' = [called |-> TRUE, training |-> TRUE, drop |-> drop,
               result |-> Forward(wn, cond_seq, audio, TRUE, drop)]
  /\ UNCHANGED <<wn, dilate_memory, audio, cond_seq, step_outs>>
  /\ UNCHANGED convVars
  /\ UNCHANGED inferenceVars

NextBatch == ForwardEval \/ ForwardTrain

SpecBatch == InitBatch /\ [][NextBatch]_vars

\* The input with every sample at time index >= t (0-based) replaced by
\* sample 0, and the conditioning with every frame at index >= t silenced.
AudioBefore(t) == [n \in 1..Len(audio) |-> IF n <= t THEN audio[n] ELSE 0]
CondBefore(t) ==
  [n \in 1..Len(cond_seq) |->
     IF n <= t THEN cond_seq[n] ELSE [c \in 1..wn.n_cond_channels |-> 0]]

\* C4: the output of Wavenet.forward at time index 0 is zero, and for t > 0
\* the output at index t does not change when the input samples and the
\* conditioning at indices >= t are replaced (same dropout mask): it is a
\* function of the inputs at indices < t alone.
C4_CausalShift ==
  (fwd.called /\ ~fwd.result.raised) =>
    /\ Len(fwd.result.output) = Len(audio)
    /\ \A c \in 1..Len(fwd.result.output[1]) : fwd.result.output[1][c] = 0
    /\ \A t \in 1..(Len(audio) - 1) :
         Forward(wn, CondBefore(t), AudioBefore(t), fwd.training, fwd.drop).output[t + 1]
           = fwd.result.output[t + 1]

\* C4 witness: a training-mode call with conditioning on a stack with a
\* block of dilation 2, an output frame after the first not zero, the input
\* with a sample and a conditioning frame that the replacement changes.
C4_Witness ==
  /\ fwd.called /\ ~fwd.result.raised /\ fwd.training /\ fwd.drop > 0
  /\ wn.use_conditioning /\ wn.use_skip_out /\ wn.n_layers = 2
  /\ DilateLayer(wn, 1).dilation = 2
  /\ Len(audio) >= 3
  /\ audio[Len(audio)] # 0
  /\ cond_seq[2] # CondBefore(1)[2]
  /\ \E t \in 2..Len(audio) :
       \E c \in 1..Len(fwd.result.output[t]) : fwd.result.output[t][c] # 0

(***************************************************************************)
(* Wavenet.inference: the autoregressive generation loop.                  *)
(*                                                                         *)
(* The buffers are modelled for one batch element (the rows of a batch are *)
(* computed alike); the batch size is kept as a number, for the shape      *)
(* checks of the code that read it.                                        *)
(***************************************************************************)
\* An argument left at None, and one that is passed: a tensor of batch rows.
NoneArg == [is_none |-> TRUE, batch |-> 0, data |-> <<>>]
Given(batch, data) == [is_none |-> FALSE, batch |-> batch, data |-> data]

\* utils.mu_law_encode and utils.mu_law_decode: the quantized class of an
\* amplitude in [-1, 1] and the amplitude of a class.  The module utils is not
\* part of the sources; the pair is modelled as the linear bijection between
\* the classes 0..MuQuantization-1 and their amplitudes.
MuLawEncode(v) == ((v + Scale) * (MuQuantization - 1) + Scale) \div (2 * Scale)
MuLawDecode(x) == ((2 * x * Scale) \div (MuQuantization - 1)) - Scale

\* utils.CategoricalSampler()(logits): one class (0-based) per call, drawn
\* with the probabilities the logits give.  The module utils is not part of
\* the sources; the sampler is modelled as a pure function of the logits and
\* of the seed it was built with: class c has the weight of its logit above
\* the lowest one, and the class drawn is the one under the quantile the seed
\* fixes (the first or the third quarter) of the cumulated weights.
SamplerWeights(logits) ==
  LET low == CHOOSE v \in {logits[c] : c \in 1..Len(logits)} :
               \A c \in 1..Len(logits) : v <= logits[c]
  IN Tuple([c \in 1..Len(logits) |-> logits[c] - low + 1])

Sampler(logits, seed) ==
  LET wt == SamplerWeights(logits)
      draw == ((2 * seed + 1) * Sum(wt, Len(wt))) \div 4
  IN CHOOSE c \in 0..(Len(wt) - 1) :
       /\ Sum(wt, c + 1) > draw
       /\ \A d \in 0..(c - 1) : ~(Sum(wt, d + 1) > draw)

\* The frame of a call that has not been made.
NoCall ==
  [pc |-> "idle", error |-> "", length |-> 0, batch_size |-> 0, cond_channels |-> 0,
   cond_features |-> NoCond, logits |-> <<>>, output_audio |-> <<>>,
   teacher_length |-> 0, s |-> 0, result |-> <<>>,
   cond_samples |-> <<>>, fed |-> <<>>, sampled |-> <<>>, written |-> {}]

\* raise error out of Wavenet.inference
InferenceRaise(frame, error) == [frame EXCEPT !.pc = "raised", !.error = error]

\* lines 429-470: the checks of the arguments, the conditioning tensor, the
\* output buffers and the teacher length.  The result is the frame of the
\* call at the head of the loop, or the frame of a call that raised.
InferenceInit(w, a) ==
  LET given == ~a.cond_features.is_none
      derived == w.use_conditioning /\ given
      length == IF derived THEN Len(a.cond_features.data) * w.upscale
                ELSE IF w.use_conditioning THEN a.length
                ELSE a.length * a.audio_hz
      cond_channels == IF derived THEN Len(a.cond_features.data[1]) ELSE a.cond_channels
      batch_size == IF derived THEN a.cond_features.batch ELSE a.batch_size
      features == IF derived
                  THEN (IF w.upscale # 1
                        THEN Upsample(w, a.cond_features.data)
                        ELSE a.cond_features.data)
                  ELSE Zeros(length, cond_channels)
      cond == IF w.use_conditioning
              THEN InferenceCond(w, features, length)
              ELSE [raised |-> FALSE, error |-> "", cond |-> NoCond]
      frame == [NoCall EXCEPT !.length = length, !.batch_size = batch_size,
                              !.cond_channels = cond_channels]
  IN IF w.use_conditioning /\ ~given /\ ~(a.length > 0)
     THEN InferenceRaise(frame, "AssertionError")
     ELSE IF w.use_conditioning /\ ~given /\ ~(a.batch_size > 0 /\ a.cond_channels > 0)
     THEN InferenceRaise(frame, "AssertionError")
     ELSE IF cond.raised
     THEN InferenceRaise(frame, cond.error)
     ELSE [frame EXCEPT
             !.pc = "loop",
             !.cond_features = cond.cond,
             !.logits = Zeros(length, w.n_out_channels),
             !.output_audio = Tuple([n \in 1..(length + 1) |-> MuLawEncode(0)]),
             !.teacher_length = IF a.teacher_audio.is_none THEN 0
                                ELSE Len(a.teacher_audio.data),
             !.s = 0]

\* lines 483-489: cond_features[:, :, :, s] or cond_features[:, :, s].  The
\* first form needs the per-block tensor; the second one, taken of the
\* per-block tensor, indexes its channels with the time index.
CondSample(w, cond_features, s) ==
  IF ~w.use_conditioning
  THEN [raised |-> FALSE, error |-> "", cond |-> NoCond]
  ELSE IF w.use_cond_conv
  THEN (IF cond_features.rank # 4
        THEN [raised |-> TRUE, error |-> "IndexError", cond |-> NoCond]
        ELSE [raised |-> FALSE, error |-> "", cond |-> TimeSlice(cond_features, s)])
  ELSE IF cond_features.rank = 3
  THEN [raised |-> FALSE, error |-> "", cond |-> TimeSlice(cond_features, s)]
  ELSE IF s >= 2 * w.n_residual_channels
  THEN [raised |-> TRUE, error |-> "IndexError", cond |-> NoCond]
  ELSE [raised |-> FALSE, error |-> "",
        cond |-> [rank |-> 3,
                  data |-> Tuple([i \in 1..Len(cond_features.data) |->
                             Tuple([t \in 1..Len(cond_features.data[i]) |->
                                cond_features.data[i][t][s + 1]])])]]

\* The same, reading the output buffer one index behind.
ForwardSampleBehind(teacher_audio, teacher_length, output_audio, s) ==
  IF s < teacher_length THEN teacher_audio[s + 1]
  ELSE IF s > 0 THEN output_audio[s] ELSE output_audio[s + 1]

\* lines 497-500: the sample fed at step s, the teacher's while it lasts and
\* the one at index s of the output buffer afterwards
ForwardSample(teacher_audio, teacher_length, output_audio, s) ==
  IF s < teacher_length THEN teacher_audio[s + 1] ELSE output_audio[s + 1]

\* line 502, logits[:, s+1] = value: the value a step of batch_size rows
\* returns fits the column of the logits buffer when there is one row (the
\* squeezed output of the head, or the single residual channel, which is
\* broadcast).
LogitsColumn(w, batch_size, value) ==
  IF batch_size # 1 THEN [raised |-> TRUE, column |-> <<>>]
  ELSE IF w.use_skip_out THEN [raised |-> FALSE, column |-> value]
  ELSE IF Len(value) # 1 THEN [raised |-> TRUE, column |-> <<>>]
  ELSE [raised |-> FALSE, column |-> Tuple([c \in 1..w.n_out_channels |-> value[1]])]

\* lines 497-500: how many rows forward_sample has, those of the teacher
\* while it lasts and those of the output buffer afterwards
ForwardRows(a, f) ==
  IF f.s < f.teacher_length THEN a.teacher_audio.batch ELSE f.batch_size

\* line 385, in_act + cond_act: the rows of the sum of an activation of rows
\* rows and a conditioning slice of batch_size rows.  Equal row counts add,
\* a single row is broadcast, anything else is a shape error.
StepRows(w, rows, batch_size) ==
  IF ~w.use_conditioning \/ rows = batch_size
  THEN [raised |-> FALSE, rows |-> rows]
  ELSE IF rows = 1 THEN [raised |-> FALSE, rows |-> batch_size]
  ELSE IF batch_size = 1 THEN [raised |-> FALSE, rows |-> rows]
  ELSE [raised |-> TRUE, rows |-> 0]

\* lines 370 and 378: the memories once the dilated layer of block 0 has
\* taken the frame of sample x, the rest of the step not run
FirstBlockPushed(w, mems, x) ==
  [mems EXCEPT ![1] = ConvInferStep(DilateLayer(w, 0), mems[1], InLayer(w, <<x>>)).mem]

\* lines 491-504: the pass of the loop body at step f.s, after its
\* conditioning slice was taken: step is what Wavenet.infer_step does with
\* that slice and with forward_sample.
InferenceFeed(w, mems, a, f, cond_sample, forward_sample, step) ==
  LET step_rows == StepRows(w, ForwardRows(a, f), f.batch_size)
      column == LogitsColumn(w, step_rows.rows, step.ret.frame)
      sample == Sampler(column.column, a.sampler_seed)
      sliced == [f EXCEPT !.cond_samples = Append(@, cond_sample)]
      fed == [sliced EXCEPT !.fed = Append(@, forward_sample)]
  IN IF a.randomize_input
     THEN \* line 492 compares the function random.uniform with a float
          [frame |-> InferenceRaise(sliced, "TypeError"), mems |-> mems]
     ELSE IF ForwardRows(a, f) = 0
     THEN \* a step on an empty batch: nothing fits the logits column, and the
          \* frames it pushes hold no value
          [frame |-> InferenceRaise(fed, "RuntimeError"), mems |-> mems]
     ELSE IF step_rows.raised
     THEN \* the sum of block 0 fails, after its dilated layer pushed the frame
          [frame |-> InferenceRaise(fed, "RuntimeError"),
           mems |-> FirstBlockPushed(w, mems, forward_sample)]
     ELSE IF step.ret.raised
     THEN [frame |-> InferenceRaise(fed, step.ret.error), mems |-> step.mems]
     ELSE IF column.raised
     THEN [frame |-> InferenceRaise(fed, "RuntimeError"), mems |-> step.mems]
     ELSE [frame |-> [fed EXCEPT
                        !.logits[f.s + 2] = column.column,
                        !.output_audio[f.s + 2] = sample,
                        !.sampled = Append(@, sample),
                        !.written = @ \cup {f.s + 1},
                        !.s = f.s + 1],
           mems |-> step.mems]

\* lines 477-504: one pass of the loop body, from frame f with the input
\* memories mems.  The result is the frame after the pass and the memories.
InferenceBody(w, mems, a, f) ==
  LET cond_sample == CondSample(w, f.cond_features, f.s)
      forward_sample == ForwardSample(a.teacher_audio.data, f.teacher_length,
                                      f.output_audio, f.s)
  IN IF cond_sample.raised
     THEN [frame |-> InferenceRaise(f, cond_sample.error), mems |-> mems]
     ELSE InferenceFeed(w, mems, a, f, cond_sample.cond, forward_sample,
                        InferStep(w, mems, cond_sample.cond, forward_sample))

(***************************************************************************)
(* Spec: one Wavenet object on which a caller runs Wavenet.inference, and  *)
(* runs it again with the same arguments once a call has ended.            *)
(***************************************************************************)
\* The models: every configuration of the flags that inference reads.
InferenceModels ==
  {w \in WavenetModels :
     /\ w.max_dilation = MaxMaxDilation /\ w.n_layers = MaxBatchLayers
     /\ (w.use_conditioning \/ (~w.use_cond_conv /\ w.same_cond_each_resblock))}

\* Teacher buffers of the given numbers of rows: of 1..MaxTeacher samples,
\* neighbours differing.
TeacherAudios(rows) ==
  {NoneArg} \cup
  {Given(r, t) : r \in rows,
                 t \in {u \in UNION {SampleSeqs(n) : n \in 1..MaxTeacher} :
                          \A n \in 1..(Len(u) - 1) : u[n] # u[n + 1]}}

BatchSizes == {0, 1, 2}
AudioHz == {1, 2}
CondRows == {1, 2}

\* The shape arguments and the conditioning of a call on model w: either
\* conditioning features are passed and the shape arguments keep their
\* defaults, or cond_features is None and the shape is given.
InferenceShapes(w) ==
  {[cond_features |-> Given(b, c), length |-> 0, audio_hz |-> 1, batch_size |-> 0,
    cond_channels |-> 0] :
      b \in CondRows,
      c \in IF w.use_conditioning
            THEN UNION {SparseCondSeqs(w, n) : n \in 1..MaxLength}
            ELSE {}}
  \cup
  {[cond_features |-> NoneArg, length |-> l, audio_hz |-> hz, batch_size |-> b,
    cond_channels |-> cc] :
      l \in 0..MaxLength, b \in BatchSizes,
      hz \in IF w.use_conditioning THEN {1} ELSE AudioHz,
      cc \in IF w.use_conditioning THEN {0, w.n_cond_channels} ELSE {0}}

\* The rows a teacher passed with shape sh has: as many as the call has, or,
\* next to conditioning features, one more.
TeacherRows(sh) ==
  IF sh.cond_features.is_none THEN {sh.batch_size}
  ELSE {sh.cond_features.batch, sh.cond_features.batch + 1}

\* The arguments of a call; a call with random substitution is made without
\* teacher.
InferenceArgs(w) ==
  UNION {
    {[cond_features |-> sh.cond_features, length |-> sh.length, audio_hz |-> sh.audio_hz,
      batch_size |-> sh.batch_size, cond_channels |-> sh.cond_channels,
      teacher_audio |-> ta, randomize_input |-> FALSE, sampler_seed |-> seed] :
        ta \in TeacherAudios(TeacherRows(sh)), seed \in {0, 1}} :
    sh \in InferenceShapes(w)}
  \cup
  {[cond_features |-> sh.cond_features, length |-> sh.length, audio_hz |-> sh.audio_hz,
    batch_size |-> sh.batch_size, cond_channels |-> sh.cond_channels,
    teacher_audio |-> NoneArg, randomize_input |-> TRUE, sampler_seed |-> 0] :
      sh \in InferenceShapes(w)}

Init ==
  /\ wn \in InferenceModels
  /\ dilate_memory = FreshMemories(wn)
  /\ args \in InferenceArgs(wn)
  /\ inference = NoCall
  /\ sessions = <<>>
  /\ audio = <<>> /\ cond_seq = <<>> /\ step_outs = <<>> /\ fwd = <<>>
  /\ ConvIdle

\* model.inference(...) is called: on a new model object, or again once the
\* call before has returned or raised.
InferenceCall ==
  /\ inference.pc # "loop"
  /\ Len(sessions) + (IF inference.pc = "idle" THEN 0 ELSE 1) < MaxSessions
  /\ inference' = InferenceInit(wn, args)
  /\ sessions' = IF inference.pc = "idle" THEN sessions ELSE Append(sessions, inference)
  /\ UNCHANGED <<wn, dilate_memory, args, audio, cond_seq, step_outs, fwd>>
  /\ UNCHANGED convVars

\* One pass of the loop, for s in range(length - 1).
InferenceStep ==
  /\ inference.pc = "loop"
  /\ inference.s < inference.length - 1
  /\ LET r == InferenceBody(wn, dilate_memory, args, inference)
     IN /\ inference' = r.frame
        /\ dilate_memory' = r.mems
  /\ UNCHANGED <<wn, args, sessions, audio, cond_seq, step_outs, fwd>>
  /\ UNCHANGED convVars

\* line 513: the loop is over and the decoded output buffer is returned.
InferenceReturn ==
  /\ inference.pc = "loop"
  /\ ~(inference.s < inference.length - 1)
  /\ inference' =
       [inference EXCEPT
          !.pc = "returned",
          !.result = Tuple([n \in 1..Len(inference.output_audio) |->
                              MuLawDecode(inference.output_audio[n])])]
  /\ UNCHANGED <<wn, dilate_memory, args, sessions, audio, cond_seq, step_outs, fwd>>
  /\ UNCHANGED convVars

Next == InferenceCall \/ InferenceStep \/ InferenceReturn

Spec == Init /\ [][Next]_vars

(***************************************************************************)
(* Claims about Wavenet.inference (checked under Spec).                    *)
(***************************************************************************)
\* C5: in a call without random substitution whose teacher buffer has K
\* samples, K below the target length, the sample fed at step t is
\* teacher_audio[:, t] for every t < K, and for every t >= K that follows a
\* step it is the value the sampler returned at step t-1, which that step
\* stored at index t of the output buffer; no step after K reads the teacher.
\* (Without teacher K is 0, and step 0 reads the start symbol at index 0.)
C5_TeacherThenSampled ==
  (inference.pc # "idle" /\ ~args.randomize_input
     /\ inference.teacher_length < inference.length) =>
    /\ \A n \in 1..Len(inference.sampled) :
         inference.output_audio[n + 1] = inference.sampled[n]
    /\ \A t \in 0..(Len(inference.fed) - 1) :
         /\ (t < inference.teacher_length) =>
              inference.fed[t + 1] = args.teacher_audio.data[t + 1]
         /\ (t >= inference.teacher_length /\ t >= 1) =>
              inference.fed[t + 1] = inference.sampled[t]

\* C5 witness: a returned call with a teacher of one sample and at least
\* three steps, the two steps after the switch fed different sampled values.
C5_Witness ==
  /\ inference.pc = "returned" /\ ~args.randomize_input
  /\ inference.teacher_length = 1
  /\ Len(inference.fed) >= 3
  /\ inference.fed[2] # inference.fed[3]

\* C6: a call with cond_features=None, batch_size=2, cond_channels=0 and a
\* length of two or more samples (no teacher, no random substitution) raises
\* nothing, every conditioning slice it hands to the stack is all zero, and it
\* returns as many samples as the length asked for.
C6_UnconditionalGeneration ==
  (inference.pc # "idle" /\ args.cond_features.is_none /\ args.batch_size = 2
     /\ args.cond_channels = 0 /\ args.length >= 2
     /\ args.teacher_audio.is_none /\ ~args.randomize_input) =>
    /\ inference.pc # "raised"
    /\ \A n \in 1..Len(inference.cond_samples) :
         \/ inference.cond_samples[n] = NoCond
         \/ /\ inference.cond_samples[n].rank = 2
            /\ \A c \in 1..Len(inference.cond_samples[n].data) :
                 inference.cond_samples[n].data[c] = 0
    /\ (inference.pc = "returned") => Len(inference.result) = args.length

\* C9: when the first step of a Wavenet.inference call is about to run, the
\* input memory of every dilated layer is in its initial state: not yet
\* created, or holding zero frames only.
C9_FreshMemoryPerSession ==
  (inference.pc = "loop" /\ inference.s = 0) =>
    \A i \in 1..wn.n_layers :
      \A j \in 1..Len(dilate_memory[i].q) :
        \A c \in 1..Len(dilate_memory[i].q[j]) : dilate_memory[i].q[j][c] = 0

\* C7: two calls of Wavenet.inference on a model with the same arguments, a
\* sampler that is a function of the logits and no random substitution end
\* alike: both return, or both raise, with the same output buffer.
C7_RunsAgree ==
  (Len(sessions) >= 1 /\ inference.pc \in {"returned", "raised"}
     /\ ~args.randomize_input) =>
    /\ inference.pc = sessions[1].pc
    /\ inference.output_audio = sessions[1].output_audio
    /\ inference.result = sessions[1].result

\* C11: a call with cond_features=None whose explicit shape is not complete
\* (batch_size, cond_channels or length left at 0) raises in the checks of the
\* arguments, on a model with and without use_conditioning: no pass of the
\* loop runs and nothing is returned.  A call with conditioning features has
\* the target length conditioning length x upscale.
C11_ArgumentsValidated ==
  (inference.pc # "idle") =>
    /\ (args.cond_features.is_none
          /\ (args.batch_size = 0 \/ args.cond_channels = 0 \/ args.length = 0)) =>
         /\ inference.pc = "raised"
         /\ inference.error = "AssertionError"
         /\ inference.s = 0 /\ inference.cond_samples = <<>> /\ inference.fed = <<>>
         /\ inference.result = <<>>
    /\ (~args.cond_features.is_none) =>
         inference.length = Len(args.cond_features.data) * wn.upscale

\* C12: in a call whose teacher has another number of rows than the
\* conditioning features, no dilated layer's input memory is created or
\* pushed to, no sample is written to the output buffer, and the call ends
\* raised: the mismatch stops the call before the stack takes a frame.
C12_BatchMismatchFailsFast ==
  (inference.pc # "idle" /\ Len(sessions) = 0
     /\ ~args.cond_features.is_none /\ ~args.teacher_audio.is_none
     /\ args.teacher_audio.batch # args.cond_features.batch) =>
    /\ inference.pc \in {"loop", "raised"}
    /\ (inference.pc = "loop") => inference.s = 0
    /\ dilate_memory = FreshMemories(wn)
    /\ inference.sampled = <<>>
    /\ \A n \in 1..Len(inference.output_audio) :
         inference.output_audio[n] = MuLawEncode(0)

\* C13: in a call with target length L that has not raised, the passes of the
\* loop run for t = 0, 1, ..., L-2 in this order; pass t writes its sample at
\* index t+1 of the output buffer (indices from 0) and its logits at index t+1
\* of the logits buffer, and a later pass that reads the output buffer reads
\* that sample; the output buffer has L+1 entries and index 0 keeps the start
\* symbol; once the call has returned, every index but 0 has been written by
\* the sampler.
C13_LoopOrderAndBuffers ==
  (inference.pc \in {"loop", "returned"}) =>
    LET L == inference.length
        done == inference.s
    IN /\ Len(inference.output_audio) = L + 1
       /\ inference.output_audio[1] = MuLawEncode(0)
       /\ Len(inference.fed) = done /\ Len(inference.sampled) = done
       /\ done = 0 \/ done <= L - 1
       /\ inference.written = 1..done
       /\ \A t \in 0..(done - 1) :
            /\ inference.output_audio[t + 2] = inference.sampled[t + 1]
            /\ inference.sampled[t + 1] = Sampler(inference.logits[t + 2], args.sampler_seed)
            /\ (t >= inference.teacher_length /\ t >= 1) =>
                 inference.fed[t + 1] = inference.sampled[t]
       /\ (inference.pc = "returned") =>
            /\ done = (IF L >= 1 THEN L - 1 ELSE 0)
            /\ inference.written = 1..L

(***************************************************************************)
(* Claims about a single Conv layer (checked under SpecConv).              *)
(***************************************************************************)
\* The frame the signal holds at time index n (0-based), zero before time 0.
FrameAt(n) == IF n >= 0 THEN signal[n + 1] ELSE [c \in 1..layer.in_channels |-> 0]

\* C1: for a causal layer (kernel size 1 or 2, any dilation, with or without
\* bias and post-activation) the frames returned by the Conv.infer_step calls
\* made so far, in order, are the first frames of Conv.forward of the signal.
C1_StreamingEqualsBatch ==
  layer.is_causal =>
    \A n \in 1..Len(outs) :
      /\ ~outs[n].raised
      /\ ~outs[n].is_none
      /\ outs[n].frame = ConvForward(layer, signal)[n]

\* C3: once the input memory of a kernel-size-2 causal layer is initialised it
\* holds exactly dilation frames after every call: the frames of the last
\* dilation calls, newest at the left, zero frames where fewer calls were made.
C3_MemoryLengthIsDilation ==
  (layer.kernel_size = 2 /\ layer.is_causal /\ input_memory.init) =>
    /\ Len(input_memory.q) = layer.dilation
    /\ \A j \in 1..Len(input_memory.q) : input_memory.q[j] = FrameAt(Len(outs) - j)

\* C3 witness: a layer of dilation 2 after more calls than its dilation, so
\* that the frame evicted by the last call was a pushed one.
C3_Witness ==
  /\ layer.kernel_size = 2 /\ layer.is_causal /\ layer.dilation = 2
  /\ input_memory.init
  /\ Len(outs) >= 3

\* C10: every Conv.infer_step call on a layer with kernel_size > 1 that is not
\* causal ends in an error, returns nothing and leaves the memory untouched.
C10_NonCausalStepRaises ==
  (layer.kernel_size > 1 /\ ~layer.is_causal) =>
    /\ \A n \in 1..Len(outs) : outs[n].raised
    /\ input_memory = NoMemory

====
